---------------------------- MODULE Spec2Model ----------------------------
(***************************************************************************)
(* keywrap: a supervisor that runs a child inside a PTY, puts /dev/tty in  *)
(* raw mode and matches every chunk read from it against a keymap.         *)
(* Model of src/main.go: the main goroutine (startup, event loop,          *)
(* stopChild, execSyscall), the exit-wait goroutine, the keystroke reader  *)
(* goroutine, the child process and the clock stopChild's timer reads.     *)
(*                                                                         *)
(* Strings are sequences of one-character strings; bytes are integers.     *)
(***************************************************************************)
EXTENDS Integers, Sequences, FiniteSets, TLC

(***************************************************************************)
(* Bounds of the model.                                                    *)
(***************************************************************************)
\* chunks the reader goroutine reads from /dev/tty in one run
MaxKeys == 2
\* clock ticks that pass while stopChild waits
MaxTime == 4
\* changes of the controlling terminal's dimensions in one run
MaxResizes == 1
\* chunks read from /dev/tty in one run on a terminal that is resized
MaxKeysResize == 1
\* chunks read from /dev/tty in one run of fast typing of bound keys
MaxKeysQueue == 12

(***************************************************************************)
(* Program constants.                                                      *)
(***************************************************************************)
\* actionChan := make(chan Action, 10)
ActionChanCap == 10
\* time.After(2 * time.Second)
GracePeriod == 2
\* sigWinchChan := make(chan os.Signal, 1)
SigWinchChanCap == 1

(***************************************************************************)
(* Characters and bytes.                                                   *)
(***************************************************************************)
Lower == <<"a","b","c","d","e","f","g","h","i","j","k","l","m",
           "n","o","p","q","r","s","t","u","v","w","x","y","z">>
Upper == <<"A","B","C","D","E","F","G","H","I","J","K","L","M",
           "N","O","P","Q","R","S","T","U","V","W","X","Y","Z">>
Digits == <<"0","1","2","3","4","5","6","7","8","9">>

IndexIn(seq, c) == CHOOSE i \in 1..Len(seq) : seq[i] = c
Occurs(seq, c) == \E i \in 1..Len(seq) : seq[i] = c

\* the byte of an ASCII character
Ord(c) ==
    IF Occurs(Lower, c) THEN 96 + IndexIn(Lower, c)
    ELSE IF Occurs(Upper, c) THEN 64 + IndexIn(Upper, c)
    ELSE IF Occurs(Digits, c) THEN 47 + IndexIn(Digits, c)
    ELSE IF c = "-" THEN 45
    ELSE IF c = "(" THEN 40
    ELSE IF c = ")" THEN 41
    ELSE IF c = " " THEN 32
    ELSE 63

RECURSIVE Decimal(_)
\* the bytes of fmt's %d for a byte value
Decimal(n) ==
    IF n < 10 THEN <<48 + n>>
    ELSE Append(Decimal(n \div 10), 48 + (n % 10))

\* strings.HasPrefix
HasPrefix(s, p) == Len(s) >= Len(p) /\ SubSeq(s, 1, Len(p)) = p

\* the Go slice expression s[lo:hi] (0-based, hi exclusive) panics when its
\* bounds are out of range
SliceOK(s, lo, hi) == 0 <= lo /\ lo <= hi /\ hi <= Len(s)
Slice(s, lo, hi) == SubSeq(s, lo + 1, hi)

(***************************************************************************)
(* Actions and the keymap compiler (formatKeymap).                         *)
(***************************************************************************)
ActionTypeExit == "exit"
ActionTypeBecome == "become"
ActionTypeExecute == "execute"

Action(type, arg) == [Type |-> type, Arg |-> arg]
\* the zero value of Action
ZeroAction == Action("", <<>>)
ExitAction == Action(ActionTypeExit, <<>>)

StrExit == <<"e","x","i","t">>
StrBecomeParen == <<"b","e","c","o","m","e","(">>
StrExecuteParen == <<"e","x","e","c","u","t","e","(">>
StrCtrlDash == <<"c","t","r","l","-">>
StrEnter == <<"e","n","t","e","r">>
StrTab == <<"t","a","b">>

\* the action of one binding's action-spec v (main.go 256-271); the slice
\* expressions v[7:len(v)-1] and v[8:len(v)-1] panic on "become(", "execute("
ParseActionPanics(v) ==
    \/ HasPrefix(v, StrBecomeParen) /\ ~SliceOK(v, 7, Len(v) - 1)
    \/ /\ ~HasPrefix(v, StrBecomeParen)
       /\ HasPrefix(v, StrExecuteParen)
       /\ ~SliceOK(v, 8, Len(v) - 1)

ParseAction(v) ==
    IF v = StrExit THEN ExitAction
    ELSE IF HasPrefix(v, StrBecomeParen)
    THEN Action(ActionTypeBecome, Slice(v, 7, Len(v) - 1))
    ELSE IF HasPrefix(v, StrExecuteParen)
    THEN Action(ActionTypeExecute, Slice(v, 8, Len(v) - 1))
    ELSE ZeroAction

\* m with m[seq] = action
MapPut(m, seq, action) ==
    [s \in (DOMAIN m) \cup {seq} |-> IF s = seq THEN action ELSE m[s]]

EmptyMap == [s \in {} |-> ZeroAction]

\* the key literals of the switch (main.go 273-288)
IsCtrlKey(k) == HasPrefix(k, StrCtrlDash) /\ Len(k) - 5 = 1
KnownKey(k) == Len(k) = 1 \/ IsCtrlKey(k) \/ k = StrEnter \/ k = StrTab

\* the CSI u sequence fmt.Sprintf("\x1b[%d;5u", code)
CsiU(code) == <<27, 91>> \o Decimal(code) \o <<59, 53, 117>>

\* the entries one iteration of formatKeymap's loop writes for key literal k
BindKey(m, k, action) ==
    IF Len(k) = 1 THEN MapPut(m, <<Ord(k[1])>>, action)
    ELSE IF IsCtrlKey(k) THEN
        LET code == Ord(k[6])
            m1   == MapPut(m, CsiU(code), action)
        IN  IF code >= 97 /\ code <= 122
            THEN MapPut(m1, <<code - 97 + 1>>, action)
            ELSE m1
    ELSE IF k = StrEnter THEN MapPut(m, <<10>>, action)
    ELSE IF k = StrTab THEN MapPut(m, <<9>>, action)
    ELSE m

RECURSIVE FormatKeymapIn(_, _, _)
\* formatKeymap visiting the bindings in the order `order`; r is the result
\* so far: the map m, or a panic
FormatKeymapIn(bnd, order, r) ==
    IF order = <<>> \/ r.panic THEN r
    ELSE LET k == Head(order)
             v == bnd[k]
         IN  IF ParseActionPanics(v) \/ ~KnownKey(k)
             THEN [panic |-> TRUE, m |-> EmptyMap]
             ELSE FormatKeymapIn(bnd, Tail(order),
                      [panic |-> FALSE, m |-> BindKey(r.m, k, ParseAction(v))])

\* the orders in which Go's range may visit the keys of a map
Orders(S) ==
    {o \in [1..Cardinality(S) -> S] : \A i, j \in DOMAIN o : i # j => o[i] # o[j]}

\* every result formatKeymap can give for the bindings bnd
FormatKeymap(bnd) ==
    {FormatKeymapIn(bnd, o, [panic |-> FALSE, m |-> EmptyMap]) : o \in Orders(DOMAIN bnd)}

(***************************************************************************)
(* Inputs of a run.                                                        *)
(***************************************************************************)
StrQ == <<"q">>
StrX == <<"x">>
StrCtrlE == <<"c","t","r","l","-","e">>
StrF1 == <<"f","1">>
StrBecomeEchoHi == <<"b","e","c","o","m","e","(","e","c","h","o"," ","h","i",")">>
StrExecuteEchoSide ==
    <<"e","x","e","c","u","t","e","(","e","c","h","o"," ","s","i","d","e",")">>

\* --bind "q:exit" --bind "ctrl-e:become(echo hi)" --bind "x:execute(echo side)"
BindingsDemo ==
    (StrQ :> StrExit) @@ (StrCtrlE :> StrBecomeEchoHi) @@ (StrX :> StrExecuteEchoSide)
\* --bind "f1:exit": a key literal formatKeymap does not know
BindingsUnknownKey == (StrF1 :> StrExit)


StrFoo == <<"f","o","o">>
StrBecomeEchoUnclosed == <<"b","e","c","o","m","e","(","e","c","h","o">>
StrCtrlI == <<"c","t","r","l","-","i">>
StrCtrlJ == <<"c","t","r","l","-","j">>

\* --bind "q:foo": an action-spec that is none of exit, become(, execute(
BindingsUnknownWord == (StrQ :> StrFoo)
\* --bind "q:": the empty action-spec
BindingsEmptySpec == (StrQ :> <<>>)
\* --bind "q:become(echo": no closing parenthesis
BindingsUnclosed == (StrQ :> StrBecomeEchoUnclosed)
\* --bind "q:become(": the prefix alone
BindingsBarePrefix == (StrQ :> StrBecomeParen)
\* --bind "tab:exit" --bind "ctrl-i:execute(echo side)": both keys are 0x09
BindingsTabCtrlI == (StrTab :> StrExit) @@ (StrCtrlI :> StrExecuteEchoSide)
\* --bind "enter:exit" --bind "ctrl-j:become(echo hi)": both keys are 0x0A
BindingsEnterCtrlJ == (StrEnter :> StrExit) @@ (StrCtrlJ :> StrBecomeEchoHi)
\* --bind "tab:exit" --bind "enter:become(echo hi)": two distinct keys
BindingsTabEnter == (StrTab :> StrExit) @@ (StrEnter :> StrBecomeEchoHi)

\* the ParsedFlag.Keymap values the model starts from, by name
BindingsSet == {"demo", "unknownKey"}
\* the values the keymap compiler is checked on
KeymapInputs ==
    BindingsSet \cup {"unknownWord", "emptySpec", "unclosed", "barePrefix",
                      "tabCtrlI", "enterCtrlJ", "tabEnter"}
FlagKeymap(name) ==
    CASE name = "demo" -> BindingsDemo
      [] name = "unknownKey" -> BindingsUnknownKey
      [] name = "unknownWord" -> BindingsUnknownWord
      [] name = "emptySpec" -> BindingsEmptySpec
      [] name = "unclosed" -> BindingsUnclosed
      [] name = "barePrefix" -> BindingsBarePrefix
      [] name = "tabCtrlI" -> BindingsTabCtrlI
      [] name = "enterCtrlJ" -> BindingsEnterCtrlJ
      [] name = "tabEnter" -> BindingsTabEnter

\* the chunks tty.Read returns: q, ctrl-e (C0 byte), x, and the unbound y, z
TtyChunks == {<<113>>, <<5>>, <<120>>, <<121>>, <<122>>}

\* the reader holds no chunk
NoChunk == [chunk |-> <<>>, action |-> ZeroAction]

\* terminal dimensions (one number stands for rows x cols)
Sizes == {1, 2}

(***************************************************************************)
(* State.                                                                  *)
(***************************************************************************)
VARIABLES
    hold,           \* flag.Hold
    isDebug,        \* os.Getenv("DEBUG") == "1"
    stdinPiped,     \* stdinFile != nil (standard input was not a terminal)
    bindings,       \* flag.Keymap (the name of one of the binding sets)
    keyLimit,       \* how many chunks the terminal delivers in this run
    chunkSet,       \* the chunks the terminal can deliver in this run
    pc,             \* where the main goroutine is
    after,          \* what the running stopChild call returns to
    rawMode,        \* /dev/tty is in raw mode
    restoreCount,   \* how often term.Restore has run
    ptyOpen,        \* ptmx is open
    childAlive,     \* the child process runs
    childStatus,    \* the child's exit status once it has exited
    wpc,            \* the exit-wait goroutine
    childExitChan,  \* the variable childExitChan: "chan" or "nil"
    exitChanBuf,    \* the channel's buffer (capacity 1)
    sigRegistered,  \* signal.Notify has run
    sigWinchChan,   \* number of signals buffered in sigWinchChan
    ttySize,        \* dimensions of the controlling terminal
    ptySize,        \* dimensions of the PTY
    resizes,        \* terminal resizes so far
    lastResizeOk,   \* history: the latest pty.InheritSize call succeeded
    actionChan,     \* buffer of actionChan
    rpc,            \* the keystroke reader goroutine
    keymap,         \* the reader's compiled keymap
    received,       \* the chunk (and the action) the reader is handling
    inputLog,       \* history: every chunk read and what the reader decided
    enqueued,       \* history: every action sent to actionChan
    dispatched,     \* history: every action the event loop received
    ptyWritten,     \* history: the bytes of every ptmx.Write call of the reader
    now,            \* the clock
    timerStart,     \* when the pending time.After timer was created
    signals,        \* history: the signals stopChild sent to the child
    stopCall,       \* history: "none", or how stopChild was entered
    endedBy,        \* history: the event that ended the run
    exitCode        \* the supervisor's exit status (-1: none)

config == <<hold, isDebug, stdinPiped, bindings, keyLimit, chunkSet>>
mainVars == <<pc, after, rawMode, restoreCount, ptyOpen, exitCode, endedBy>>
childVars == <<childAlive, childStatus, wpc>>
exitChanVars == <<childExitChan, exitChanBuf>>
sizeVars == <<sigRegistered, sigWinchChan, ttySize, ptySize, resizes,
              lastResizeOk>>
readerVars == <<rpc, keymap, received, inputLog, enqueued, ptyWritten>>
stopVars == <<now, timerStart, signals, stopCall>>
vars == <<config, mainVars, childVars, exitChanVars, sizeVars, readerVars,
          stopVars, actionChan, dispatched>>

\* the main goroutine has ended: returned, replaced by exec, panicked (its
\* deferred calls ran), or the process crashed on another goroutine's panic
Terminal == {"done", "replaced", "panicked", "crashed"}
Alive == pc \notin Terminal

\* the states of the event loop (spec 4.3)
Holding == Alive /\ hold /\ childExitChan = "nil" /\ pc \in {"select", "execute"}
Terminated == ~Alive

\* the state main starts from, whatever the flags and the environment
InitState ==
    /\ pc = "startPty"
    /\ after = "none"
    /\ rawMode = FALSE
    /\ restoreCount = 0
    /\ ptyOpen = FALSE
    /\ childAlive = FALSE
    /\ childStatus = 0
    /\ wpc = "idle"
    /\ childExitChan = "nil"
    /\ exitChanBuf = <<>>
    /\ sigRegistered = FALSE
    /\ sigWinchChan = 0
    /\ ttySize = 1
    /\ ptySize = 0
    /\ resizes = 0
    /\ lastResizeOk = TRUE
    /\ actionChan = <<>>
    /\ rpc = "idle"
    /\ keymap = EmptyMap
    /\ received = NoChunk
    /\ inputLog = <<>>
    /\ enqueued = <<>>
    /\ dispatched = <<>>
    /\ ptyWritten = <<>>
    /\ now = 0
    /\ timerStart = 0
    /\ signals = <<>>
    /\ stopCall = "none"
    /\ endedBy = "none"
    /\ exitCode = -1

Init ==
    /\ hold \in BOOLEAN
    /\ isDebug \in BOOLEAN
    /\ stdinPiped \in BOOLEAN
    /\ bindings \in BindingsSet
    /\ keyLimit = MaxKeys
    /\ chunkSet = TtyChunks
    /\ InitState

(***************************************************************************)
(* Startup (main.go 112-133).                                              *)
(***************************************************************************)
\* child, ptmx := startPty(childCmd, flag.Input)
StartPty ==
    /\ pc = "startPty"
    /\ pc' = "makeRaw"
    /\ ptyOpen' = TRUE
    /\ childAlive' = TRUE
    /\ UNCHANGED <<config, after, rawMode, restoreCount, exitCode, endedBy,
                   childStatus, wpc, exitChanVars, sizeVars, readerVars, stopVars,
                   actionChan, dispatched>>

\* oldState, err := term.MakeRaw(...); defer term.Restore(...)
MakeRaw ==
    /\ pc = "makeRaw"
    /\ pc' = "notify"
    /\ rawMode' = TRUE
    /\ UNCHANGED <<config, after, restoreCount, ptyOpen, exitCode, endedBy,
                   childVars, exitChanVars, sizeVars, readerVars, stopVars,
                   actionChan, dispatched>>

\* signal.Notify(sigWinchChan, syscall.SIGWINCH)
SigNotify ==
    /\ pc = "notify"
    /\ pc' = "sigSend"
    /\ sigRegistered' = TRUE
    /\ UNCHANGED <<config, after, rawMode, restoreCount, ptyOpen, exitCode,
                   endedBy, childVars, exitChanVars, sigWinchChan, ttySize,
                   ptySize, resizes, lastResizeOk, readerVars, stopVars,
                   actionChan, dispatched>>

\* sigWinchChan <- syscall.SIGWINCH: blocks while the channel is full
SigSend ==
    /\ pc = "sigSend"
    /\ sigWinchChan < SigWinchChanCap
    /\ sigWinchChan' = sigWinchChan + 1
    /\ pc' = "spawn"
    /\ UNCHANGED <<config, after, rawMode, restoreCount, ptyOpen, exitCode,
                   endedBy, childVars, exitChanVars, sigRegistered, ttySize,
                   ptySize, resizes, lastResizeOk, readerVars, stopVars,
                   actionChan, dispatched>>

\* childExitChan := make(chan error, 1) and the go statements
StartTasks ==
    /\ pc = "spawn"
    /\ pc' = "select"
    /\ childExitChan' = "chan"
    /\ wpc' = "wait"
    /\ rpc' = "format"
    /\ UNCHANGED <<config, after, rawMode, restoreCount, ptyOpen, exitCode,
                   endedBy, childAlive, childStatus, exitChanBuf, sizeVars,
                   keymap, received, inputLog, enqueued, ptyWritten, stopVars,
                   actionChan, dispatched>>

(***************************************************************************)
(* The child and the exit-wait goroutine (main.go 127-131).                *)
(***************************************************************************)
\* the child exits, of itself or on a signal, with status s
ChildExits(s) ==
    /\ childAlive
    /\ Alive
    /\ childAlive' = FALSE
    /\ childStatus' = s
    /\ UNCHANGED <<config, mainVars, wpc, exitChanVars, sizeVars, readerVars,
                   stopVars, actionChan, dispatched>>

\* childExitChan <- child.Wait(), then the deferred close
WaitReturns ==
    /\ wpc = "wait"
    /\ Alive
    /\ ~childAlive
    /\ exitChanBuf' = Append(exitChanBuf, childStatus)
    /\ wpc' = "done"
    /\ UNCHANGED <<config, mainVars, childAlive, childStatus, childExitChan,
                   sizeVars, readerVars, stopVars, actionChan, dispatched>>

(***************************************************************************)
(* Ways the main goroutine ends.                                           *)
(***************************************************************************)
\* the deferred calls of main, last first: term.Restore, ptmx.Close
\* (main.go 113, 120)
RunDeferred ==
    /\ rawMode' = FALSE
    /\ restoreCount' = restoreCount + 1
    /\ ptyOpen' = FALSE

\* return from main: the deferred calls run, the process exits with status 0
Return(cause) ==
    /\ pc' = "done"
    /\ endedBy' = cause
    /\ exitCode' = 0
    /\ RunDeferred

\* a panic in the main goroutine: the deferred calls run, exit status 2
Panic(cause) ==
    /\ pc' = "panicked"
    /\ endedBy' = cause
    /\ exitCode' = 2
    /\ RunDeferred

(***************************************************************************)
(* The event loop (main.go 202-237) and stopChild (main.go 175-200).       *)
(***************************************************************************)
\* mutant: the child-exit case returns whatever flag.Hold is
ReturnsOnChildExitAlways == TRUE

\* whether the child-exit case returns from main: if !flag.Hold { return }
ReturnsOnChildExit == ~hold

\* case err := <-childExitChan (a receive from a nil channel never proceeds)
LoopChildExit ==
    /\ pc = "select"
    /\ childExitChan = "chan"
    /\ exitChanBuf # <<>>
    /\ childExitChan' = "nil"
    /\ exitChanBuf' = Tail(exitChanBuf)
    /\ IF ReturnsOnChildExit
       THEN Return("childExit")
       ELSE UNCHANGED <<pc, rawMode, restoreCount, ptyOpen, exitCode, endedBy>>
    /\ UNCHANGED <<config, after, childVars, sizeVars, readerVars, stopVars,
                   actionChan, dispatched>>

\* mutant: the PTY is given the dimensions the terminal started with
InheritSizeInitial(ok) == IF ok THEN 1 ELSE ptySize

\* the PTY's dimensions after pty.InheritSize(tty, ptmx): those the terminal
\* has at the call, or unchanged when the call fails
InheritSize(ok) == IF ok THEN ttySize ELSE ptySize

\* case <-sigWinchChan: pty.InheritSize(tty, ptmx); an error (ok = FALSE) is
\* logged and the loop goes on
LoopResize(ok) ==
    /\ pc = "select"
    /\ sigWinchChan > 0
    /\ sigWinchChan' = sigWinchChan - 1
    /\ ptySize' = InheritSize(ok)
    /\ lastResizeOk' = ok
    /\ UNCHANGED <<config, mainVars, childVars, exitChanVars, sigRegistered,
                   ttySize, resizes, readerVars, stopVars, actionChan, dispatched>>

\* mutant: the newest action is received first
ChanNewest(ch) == ch[Len(ch)]

\* the value a receive from actionChan yields, and what stays in the buffer
ChanFirst(ch) == Head(ch)
ChanRest(ch) == Tail(ch)

\* mutant: stopChild without its first test
StopIsNoopNever == FALSE

\* mutant: stopChild always returns at its first test
StopIsNoopAlways == TRUE

\* stopChild's first test: if childExitChan == nil { return }
StopIsNoop == childExitChan = "nil"

\* a signal sent to the child, with the time and the child's state then
Signal(sig) ==
    [sig |-> sig, at |-> now, alive |-> childAlive, reaped |-> wpc = "done",
     chan |-> childExitChan]

\* stopChild() called with `ret` to return to: a no-op, or SIGTERM and the
\* first time.After of the for/select loop
StopChild(ret) ==
    IF StopIsNoop
    THEN /\ stopCall' = "noop"
         /\ UNCHANGED <<now, timerStart, signals>>
         /\ IF ret = "return"
            THEN Return("exitAction") /\ UNCHANGED after
            ELSE /\ pc' = "exec"
                 /\ after' = ret
                 /\ UNCHANGED <<rawMode, restoreCount, ptyOpen, exitCode, endedBy>>
    ELSE /\ stopCall' = "signalled"
         /\ signals' = Append(signals, Signal("TERM"))
         /\ timerStart' = now
         /\ pc' = "stop"
         /\ after' = ret
         /\ UNCHANGED <<now, rawMode, restoreCount, ptyOpen, exitCode, endedBy>>

\* case action := <-actionChan and the switch on action.Type
LoopAction ==
    /\ pc = "select"
    /\ actionChan # <<>>
    /\ LET action == ChanFirst(actionChan)
       IN  /\ actionChan' = ChanRest(actionChan)
           /\ dispatched' = Append(dispatched, action)
           /\ CASE action.Type = ActionTypeExit -> StopChild("return")
                [] action.Type = ActionTypeBecome -> StopChild("become")
                [] action.Type = ActionTypeExecute ->
                     \* stdinFile.Name() dereferences a nil *os.File
                     IF stdinPiped
                     THEN /\ pc' = "execute"
                          /\ UNCHANGED <<after, rawMode, restoreCount, ptyOpen,
                                         exitCode, endedBy, stopVars>>
                     ELSE /\ Panic("nilStdinFile")
                          /\ UNCHANGED <<after, stopVars>>
                [] OTHER -> UNCHANGED <<mainVars, stopVars>>
    /\ UNCHANGED <<config, childVars, exitChanVars, sizeVars, readerVars>>

\* cmd.Run() of the Execute side command returns; an error is logged
ExecuteDone ==
    /\ pc = "execute"
    /\ pc' = "select"
    /\ UNCHANGED <<config, after, rawMode, restoreCount, ptyOpen, exitCode,
                   endedBy, childVars, exitChanVars, sizeVars, readerVars,
                   stopVars, actionChan, dispatched>>

\* mutant: the timer fires a tick early
TimerFiredEarly == now - timerStart >= GracePeriod - 1

\* the timer of the pending time.After(2 * time.Second) has fired
TimerFired == now - timerStart >= GracePeriod

\* case <-time.After(...): child.Process.Kill(); the loop's next iteration
\* creates a new timer
StopTimeout ==
    /\ pc = "stop"
    /\ TimerFired
    /\ signals' = Append(signals, Signal("KILL"))
    /\ timerStart' = now
    /\ UNCHANGED <<config, mainVars, childVars, exitChanVars, sizeVars,
                   readerVars, now, stopCall, actionChan, dispatched>>

\* case <-childExitChan in stopChild: childExitChan = nil; return
StopExit ==
    /\ pc = "stop"
    /\ childExitChan = "chan"
    /\ exitChanBuf # <<>>
    /\ childExitChan' = "nil"
    /\ exitChanBuf' = Tail(exitChanBuf)
    /\ IF after = "return"
       THEN Return("exitAction")
       ELSE /\ pc' = "exec"
            /\ UNCHANGED <<rawMode, restoreCount, ptyOpen, exitCode, endedBy>>
    /\ UNCHANGED <<config, after, childVars, sizeVars, readerVars, stopVars,
                   actionChan, dispatched>>

\* ActionTypeBecome after stopChild: stdinFile.Name(), then execSyscall
\* (main.go 225-226, 293-303)
Exec ==
    /\ pc = "exec"
    /\ \/ ~stdinPiped /\ Panic("nilStdinFile")
       \/ /\ stdinPiped
          /\ \/ Panic("execFailed")
             \/ /\ pc' = "replaced"
                /\ endedBy' = "become"
                /\ UNCHANGED <<rawMode, restoreCount, ptyOpen, exitCode>>
    /\ UNCHANGED <<config, after, childVars, exitChanVars, sizeVars, readerVars,
                   stopVars, actionChan, dispatched>>

\* time passes; only stopChild's timers read the clock
Tick ==
    /\ pc = "stop"
    /\ now < MaxTime
    /\ now' = now + 1
    /\ UNCHANGED <<config, mainVars, childVars, exitChanVars, sizeVars,
                   readerVars, timerStart, signals, stopCall, actionChan,
                   dispatched>>

\* the controlling terminal is resized; SIGWINCH reaches sigWinchChan when
\* registered and the channel has room (the signal package never blocks)
TtyResize(sz) ==
    /\ Alive
    /\ resizes < MaxResizes
    /\ sz # ttySize
    /\ ttySize' = sz
    /\ resizes' = resizes + 1
    /\ sigWinchChan' = IF sigRegistered /\ sigWinchChan < SigWinchChanCap
                       THEN sigWinchChan + 1 ELSE sigWinchChan
    /\ UNCHANGED <<config, mainVars, childVars, exitChanVars, sigRegistered,
                   ptySize, lastResizeOk, readerVars, stopVars, actionChan,
                   dispatched>>

(***************************************************************************)
(* The keystroke reader goroutine (main.go 135-161).                       *)
(***************************************************************************)
\* keymap := formatKeymap(flag.Keymap); a panic here ends the process
\* without running main's deferred calls
ReaderFormat ==
    /\ rpc = "format"
    /\ Alive
    /\ \E r \in FormatKeymap(FlagKeymap(bindings)) :
         IF r.panic
         THEN /\ pc' = "crashed"
              /\ endedBy' = "readerPanic"
              /\ exitCode' = 2
              /\ rpc' = "dead"
              /\ UNCHANGED keymap
         ELSE /\ keymap' = r.m
              /\ rpc' = "read"
              /\ UNCHANGED <<pc, endedBy, exitCode>>
    /\ UNCHANGED <<config, after, rawMode, restoreCount, ptyOpen, childVars,
                   exitChanVars, sizeVars, received, inputLog, enqueued,
                   ptyWritten, stopVars, actionChan, dispatched>>

\* mutant: the keymap lookup is skipped
DecideNoLookup(chunk) ==
    IF isDebug THEN "debug"
    ELSE IF childExitChan = "nil" THEN "exit"
    ELSE "forward"

\* mutant: the test of childExitChan is inverted
DecideInverted(chunk) ==
    IF isDebug THEN "debug"
    ELSE IF chunk \in DOMAIN keymap THEN "action"
    ELSE IF childExitChan # "nil" THEN "exit"
    ELSE "forward"

\* the if/else chain on the received chunk (main.go 145-159). The reader
\* reads the variable childExitChan, which the main goroutine writes, with no
\* synchronisation: the read is one step, before or after the write
Decide(chunk) ==
    IF isDebug THEN "debug"
    ELSE IF chunk \in DOMAIN keymap THEN "action"
    ELSE IF childExitChan = "nil" THEN "exit"
    ELSE "forward"

\* the action the reader sends for a chunk
ActionFor(chunk, decision) ==
    IF decision = "action" THEN keymap[chunk] ELSE ExitAction

\* n, err := tty.Read(buf) returns a chunk, and the if/else chain picks the
\* branch; the log entry keeps the state the branch was picked in
ReaderRead(chunk) ==
    /\ rpc = "read"
    /\ Alive
    /\ Len(inputLog) < keyLimit
    /\ chunk \in chunkSet
    /\ LET decision == Decide(chunk)
         IN  /\ inputLog' = Append(inputLog,
                    [chunk |-> chunk, decision |-> decision, held |-> Holding,
                     running |-> childAlive])
             /\ received' = IF decision = "debug" THEN NoChunk
                            ELSE [chunk |-> chunk,
                                  action |-> IF decision = "forward" THEN ZeroAction
                                             ELSE ActionFor(chunk, decision)]
             /\ rpc' = CASE decision = "debug" -> "read"
                         [] decision = "forward" -> "write"
                         [] OTHER -> "send"
    /\ UNCHANGED <<config, mainVars, childVars, exitChanVars, sizeVars, keymap,
                   enqueued, ptyWritten, stopVars, actionChan, dispatched>>

\* mutant: a channel with a buffer of one action
ChanHasRoomForOne(ch) == Len(ch) < 1

\* a send to the buffered channel make(chan Action, 10) does not block
ChanHasRoom(ch) == Len(ch) < ActionChanCap

\* actionChan <- action: blocks while the buffer is full
ReaderSend ==
    /\ rpc = "send"
    /\ Alive
    /\ ChanHasRoom(actionChan)
    /\ actionChan' = Append(actionChan, received.action)
    /\ enqueued' = Append(enqueued, [action |-> received.action, key |-> Len(inputLog)])
    /\ received' = NoChunk
    /\ rpc' = "read"
    /\ UNCHANGED <<config, mainVars, childVars, exitChanVars, sizeVars, keymap,
                   inputLog, ptyWritten, stopVars, dispatched>>

\* mutant: the write starts one byte late
WrittenOffByOne(chunk) == Tail(chunk)

\* the bytes ptmx.Write(received) is given: received = buf[:n]
Written(chunk) == chunk

\* _, err = ptmx.Write(received): the call can fail once the child is gone,
\* and the reader then returns
ReaderWrite ==
    /\ rpc = "write"
    /\ Alive
    /\ ptyWritten' = Append(ptyWritten, Written(received.chunk))
    /\ \/ rpc' = "read"
       \/ ~childAlive /\ rpc' = "dead"
    /\ received' = NoChunk
    /\ UNCHANGED <<config, mainVars, childVars, exitChanVars, sizeVars, keymap,
                   inputLog, enqueued, stopVars, actionChan, dispatched>>

(***************************************************************************)
(* Specification.                                                          *)
(***************************************************************************)
Next ==
    \/ StartPty
    \/ MakeRaw
    \/ SigNotify
    \/ SigSend
    \/ StartTasks
    \/ \E s \in {0, 1} : ChildExits(s)
    \/ WaitReturns
    \/ LoopChildExit
    \/ LoopResize(TRUE)
    \/ LoopAction
    \/ ExecuteDone
    \/ StopTimeout
    \/ StopExit
    \/ Exec
    \/ Tick
    \/ ReaderFormat
    \/ \E chunk \in TtyChunks : ReaderRead(chunk)
    \/ ReaderSend
    \/ ReaderWrite

Spec == Init /\ [][Next]_vars

\* the same program on a terminal that is resized while it runs and whose
\* size ioctl can fail
NextResize ==
    \/ Next
    \/ LoopResize(FALSE)
    \/ \E sz \in Sizes : TtyResize(sz)

InitResize ==
    /\ hold \in BOOLEAN
    /\ isDebug \in BOOLEAN
    /\ stdinPiped \in BOOLEAN
    /\ bindings \in BindingsSet
    /\ keyLimit = MaxKeysResize
    /\ chunkSet = TtyChunks
    /\ InitState

SpecResize == InitResize /\ [][NextResize]_vars

\* runs of fast typing: one bound key, x or q, is pressed again and again,
\* standard input is piped and debug mode is off
QueueChunks == {<<120>>, <<113>>}

InitQueue ==
    /\ hold \in BOOLEAN
    /\ isDebug = FALSE
    /\ stdinPiped = TRUE
    /\ bindings = "demo"
    /\ keyLimit = MaxKeysQueue
    /\ chunkSet \in {{chunk} : chunk \in QueueChunks}
    /\ InitState

NextQueue ==
    \/ StartPty
    \/ MakeRaw
    \/ SigNotify
    \/ SigSend
    \/ StartTasks
    \/ \E s \in {0, 1} : ChildExits(s)
    \/ WaitReturns
    \/ LoopChildExit
    \/ LoopResize(TRUE)
    \/ LoopAction
    \/ ExecuteDone
    \/ StopTimeout
    \/ StopExit
    \/ Tick
    \/ ReaderFormat
    \/ \E chunk \in QueueChunks : ReaderRead(chunk)
    \/ ReaderSend

SpecQueue == InitQueue /\ [][NextQueue]_vars

\* runs in which no key is pressed, from every value of KeymapInputs: the
\* startup, the reader's call of formatKeymap, and the child's exit
InitKeymap ==
    /\ hold \in BOOLEAN
    /\ isDebug \in BOOLEAN
    /\ stdinPiped \in BOOLEAN
    /\ bindings \in KeymapInputs
    /\ keyLimit = 0
    /\ chunkSet = {}
    /\ InitState

NextKeymap ==
    \/ StartPty
    \/ MakeRaw
    \/ SigNotify
    \/ SigSend
    \/ StartTasks
    \/ \E s \in {0, 1} : ChildExits(s)
    \/ WaitReturns
    \/ LoopChildExit
    \/ LoopResize(TRUE)
    \/ ReaderFormat

SpecKeymap == InitKeymap /\ [][NextKeymap]_vars

(***************************************************************************)
(* Properties.                                                             *)
(***************************************************************************)
Keys == 1..Len(inputLog)
Mapped(i) == inputLog[i].chunk \in DOMAIN keymap
\* the reader has read chunk i and not yet sent or written it
Pending(i) == i = Len(inputLog) /\ rpc \in {"send", "write"}
\* the entries of enqueued that chunk i produced
EnqueuedFor(i) == {j \in 1..Len(enqueued) : enqueued[j].key = i}

RECURSIVE Forwards(_)
\* the chunks of a log the reader chose to forward, in arrival order
Forwards(log) ==
    IF log = <<>> THEN <<>>
    ELSE LET rest == Forwards(SubSeq(log, 1, Len(log) - 1))
             last == log[Len(log)]
         IN  IF last.decision = "forward" THEN Append(rest, last.chunk) ELSE rest

\* C1: with debug mode off, a chunk that is a key of the compiled keymap
\* gives exactly one enqueued action, the one bound to it (none yet while the
\* send is pending), and no mapped chunk is ever written to the PTY master.
C1_MappedChunkEnqueuedOnce ==
    ~isDebug =>
        /\ \A i \in Keys : Mapped(i) =>
              /\ inputLog[i].decision = "action"
              /\ Cardinality(EnqueuedFor(i)) = IF Pending(i) THEN 0 ELSE 1
              /\ \A j \in EnqueuedFor(i) :
                    enqueued[j].action = keymap[inputLog[i].chunk]
        /\ \A w \in 1..Len(ptyWritten) : ptyWritten[w] \notin DOMAIN keymap

\* a mapped chunk was read while the child ran, and its action was enqueued
C1_Witness ==
    /\ ~isDebug
    /\ \E i \in Keys :
          /\ Mapped(i)
          /\ inputLog[i].running
          /\ EnqueuedFor(i) # {}

\* C2: with debug mode off, a chunk that is no key of the compiled keymap
\* and is read while the child is alive is forwarded and enqueues nothing,
\* and the bytes given to the PTY master are exactly the forwarded chunks,
\* unmodified and in arrival order (the last one may still be pending).
C2_UnmappedChunkForwarded ==
    ~isDebug =>
        /\ \A i \in Keys : (~Mapped(i) /\ inputLog[i].running) =>
              /\ inputLog[i].decision = "forward"
              /\ EnqueuedFor(i) = {}
        /\ LET fw == Forwards(inputLog)
           IN  ptyWritten = IF rpc = "write" THEN SubSeq(fw, 1, Len(fw) - 1) ELSE fw

\* two different unmapped chunks were read while the child ran and reached
\* the PTY master
C2_Witness ==
    /\ ~isDebug
    /\ Len(ptyWritten) >= 2
    /\ ptyWritten[1] # ptyWritten[2]
    /\ \A i \in Keys : inputLog[i].running /\ ~Mapped(i)

\* the k-th dispatched action came from a chunk read while Holding
DispatchedHeld(k) == inputLog[enqueued[k].key].held

\* the step of the event loop that receives the child-exit notification
ChildExitEvent == pc = "select" /\ childExitChan = "chan" /\ childExitChan' = "nil"
\* the step of the event loop that receives an action of one of the types
DispatchOf(types) ==
    /\ pc = "select"
    /\ Len(dispatched') = Len(dispatched) + 1
    /\ dispatched'[Len(dispatched')].Type \in types

\* C3 (as claimed): after the child has exited with hold mode on, every
\* unmapped chunk read while the supervisor is Holding yields an Exit action.
C3_HeldUnmappedYieldsExit ==
    \A i \in Keys : (inputLog[i].held /\ ~Mapped(i)) =>
        inputLog[i].decision = "exit"

\* C3 (amended): with debug mode off, an unmapped chunk read while the
\* supervisor is Holding yields exactly one Exit action (none yet while the
\* send is pending) and is not forwarded; dispatching an Exit action while
\* Holding ends the loop at once: Holding -> Terminated.
C3_HeldUnmappedYieldsExitNoDebug ==
    /\ [](~isDebug =>
            \A i \in Keys : (inputLog[i].held /\ ~Mapped(i)) =>
                /\ inputLog[i].decision = "exit"
                /\ Cardinality(EnqueuedFor(i)) = IF Pending(i) THEN 0 ELSE 1
                /\ \A j \in EnqueuedFor(i) : enqueued[j].action = ExitAction)
    /\ [][(Holding /\ DispatchOf({ActionTypeExit}))
            => (pc' = "done" /\ Terminated' /\ ptyWritten' = ptyWritten)]_vars

\* an unmapped chunk read while Holding was dispatched as Exit and ended the
\* run
C3_Witness ==
    /\ ~isDebug
    /\ pc = "done"
    /\ endedBy = "exitAction"
    /\ dispatched # <<>>
    /\ DispatchedHeld(Len(dispatched))
    /\ ~Mapped(enqueued[Len(dispatched)].key)

C5_ExitStatusMirrorsChild ==
    endedBy = "childExit" => (exitCode = 0 <=> childStatus = 0)

\* C6 (as claimed): once the terminal is in raw mode, every way the
\* supervisor ends has restored the previous mode exactly once.
C6_RestoredOnEveryExit ==
    ~Alive => (restoreCount = 1 /\ ~rawMode)

\* C7 (as claimed): stopChild called when the child has already exited,
\* whether or not the exit notification has been consumed, sends no signal.
C7_NoSignalToExitedChild ==
    stopCall = "signalled" => signals[1].alive

\* C7 (amended): stopChild is a no-op exactly when the exit notification has
\* already been consumed (childExitChan is nil): called from the loop then,
\* it sends no signal, starts no wait and the dispatch goes straight on (to
\* the return for Exit, to the exec for Become); in every other call, also
\* one on a child that has exited with its notification still buffered, the
\* graceful-terminate signal is attempted first.
C7_StopNoopOnceExitConsumed ==
    /\ [][(childExitChan = "nil"
             /\ DispatchOf({ActionTypeExit, ActionTypeBecome}))
            => /\ stopCall' = "noop"
               /\ signals' = signals
               /\ now' = now
               /\ pc' \in {"done", "exec"}]_vars
    /\ [](stopCall = "noop" => signals = <<>>)
    /\ [](stopCall = "signalled" =>
            /\ signals # <<>>
            /\ signals[1].sig = "TERM"
            /\ signals[1].chan = "chan")

\* stopChild ran as a no-op on a child whose exit had been consumed
C7_Witness ==
    /\ stopCall = "noop"
    /\ ~childAlive
    /\ childExitChan = "nil"
    /\ ~Alive

Kills == {i \in 1..Len(signals) : signals[i].sig = "KILL"}

\* C8: stopChild on a live child attempts SIGTERM first; every SIGKILL comes
\* a full grace period or more after it (and after the previous timer's
\* start), and is sent while the exit notification has not been received.
C8_KillOnlyAfterGracePeriod ==
    /\ signals # <<>> => signals[1].sig = "TERM"
    /\ \A i \in Kills :
          /\ i > 1
          /\ signals[i].at - signals[1].at >= GracePeriod
          /\ signals[i].at - signals[i - 1].at >= GracePeriod
          /\ signals[i].chan = "chan"
    /\ childExitChan = "nil" => pc # "stop"

\* a child that outlived the grace period was sent SIGKILL
C8_Witness ==
    /\ Kills # {}
    /\ signals[1].alive

\* C9 (as claimed): after the grace period stopChild sends one SIGKILL and
\* then only waits: no further timer fires and no further signal is sent.
C9_OneKillThenWait ==
    Cardinality(Kills) <= 1

\* the actions of the entries of enqueued
EnqueuedActions == [j \in 1..Len(enqueued) |-> enqueued[j].action]

\* C10: actions are dispatched one at a time in the order they were
\* enqueued: what was dispatched followed by what is buffered is what was
\* enqueued; a dispatch starts only from the loop's select; while an Execute
\* side command runs nothing is dispatched and the buffer only grows.
C10_DispatchInEnqueueOrder ==
    /\ [](dispatched \o actionChan = EnqueuedActions)
    /\ [][dispatched' # dispatched
            => /\ pc = "select"
               /\ dispatched' = Append(dispatched, EnqueuedActions[Len(dispatched) + 1])]_vars
    /\ [][pc = "execute"
            => /\ dispatched' = dispatched
               /\ Len(actionChan') >= Len(actionChan)
               /\ SubSeq(actionChan', 1, Len(actionChan)) = actionChan]_vars

\* an action is buffered while an Execute side command runs
C10_Witness ==
    /\ pc = "execute"
    /\ dispatched[Len(dispatched)].Type = ActionTypeExecute
    /\ actionChan # <<>>

\* C11 (as claimed): dispatching Execute never terminates or signals the
\* supervised child and never terminates the supervisor: the side command
\* runs (the loop waits for it), and when it returns the loop is back in its
\* select with the supervisor alive, nothing signalled and nothing dispatched.
C11_ExecuteKeepsChildAndSupervisor ==
    /\ [][DispatchOf({ActionTypeExecute})
            => /\ pc' = "execute"
               /\ signals' = signals
               /\ childAlive' = childAlive
               /\ rawMode' = rawMode /\ ptyOpen' = ptyOpen]_vars
    /\ [][pc = "execute" /\ pc' # "execute"
            => /\ pc' = "select"
               /\ signals' = signals
               /\ childAlive' = childAlive
               /\ dispatched' = dispatched]_vars

\* C12: dispatching Become first runs stopChild to completion: the
\* process-replacement is attempted only once the child has exited and its
\* exit notification has been received; from the dispatch on, the event
\* loop processes no other event (nothing dispatched, no resize received),
\* and the attempt either replaces the process or ends it with a panic.
C12_BecomeStopsThenReplaces ==
    /\ [](pc = "exec" => /\ ~childAlive
                         /\ wpc = "done"
                         /\ childExitChan = "nil"
                         /\ dispatched[Len(dispatched)].Type = ActionTypeBecome)
    /\ [][DispatchOf({ActionTypeBecome})
            => /\ pc' \in {"stop", "exec"}
               /\ after' = "become"
               /\ (pc' = "stop") <=> (childExitChan = "chan")]_vars
    /\ [][(pc = "stop" /\ after = "become")
            => /\ pc' \in {"stop", "exec"}
               /\ dispatched' = dispatched
               /\ sigWinchChan' = sigWinchChan]_vars
    /\ [][pc = "exec"
            => /\ pc' \in {"exec", "replaced", "panicked"}
               /\ dispatched' = dispatched
               /\ sigWinchChan' = sigWinchChan]_vars
    /\ [][(pc \in {"replaced", "panicked"}) => (pc' = pc)]_vars

\* the process was replaced after stopChild had signalled a live child
C12_Witness ==
    /\ pc = "replaced"
    /\ endedBy = "become"
    /\ stopCall = "signalled"
    /\ signals[1].alive
    /\ ~childAlive

\* an action-spec of one of the three shapes exit, become(<s>), execute(<s>)
WellFormedSpec(v) ==
    \/ v = StrExit
    \/ HasPrefix(v, StrBecomeParen) /\ v[Len(v)] = ")"
    \/ HasPrefix(v, StrExecuteParen) /\ v[Len(v)] = ")"

\* the reader's call of formatKeymap has returned a keymap
Compiled == rpc \in {"read", "send", "write"} \/ (rpc = "dead" /\ endedBy # "readerPanic")

\* C13 (as claimed): an action-spec that is not of one of the three shapes
\* (an unknown word, the empty string, become( or execute( without the
\* closing parenthesis) is a fatal configuration error: formatKeymap never
\* returns a keymap for it, and no keymap entry is produced.
C13_OnlyThreeShapesCompile ==
    (\E k \in DOMAIN FlagKeymap(bindings) : ~WellFormedSpec(FlagKeymap(bindings)[k]))
        => ~Compiled /\ keymap = EmptyMap


\* C14 (as claimed): a keymap configuration error is surfaced before any
\* resource is acquired: when formatKeymap fails, no PTY has been allocated,
\* no child has been started and the terminal is not in raw mode.
C14_ConfigErrorBeforeResources ==
    endedBy = "readerPanic" =>
        /\ ~ptyOpen
        /\ ~rawMode
        /\ ~childAlive /\ wpc = "idle"


LoopBusy == pc \in {"execute", "stop"}

\* C16 (as claimed): queue sends never block the reader: however many bound
\* keys are pressed while the event loop is busy, the reader's send to
\* actionChan can complete.
C16_SendNeverBlocks ==
    (LoopBusy /\ rpc = "send") => ENABLED ReaderSend

\* C16 (amended): the reader's send completes without blocking while fewer
\* than 10 actions are pending; actionChan never holds more than 10, and
\* with 10 pending the reader stays in its send, reading nothing more,
\* until the event loop receives an action.
C16_SendBlocksOnlyWhenFull ==
    /\ [](Len(actionChan) <= ActionChanCap)
    /\ []((Alive /\ rpc = "send" /\ Len(actionChan) < ActionChanCap)
            => ENABLED ReaderSend)
    /\ [][(rpc = "send" /\ Len(actionChan) = ActionChanCap)
            => /\ rpc' = "send"
               /\ inputLog' = inputLog
               /\ enqueued' = enqueued]_vars

\* ten actions were enqueued, none blocking, while an Execute side command ran
C16_Witness ==
    /\ pc = "execute"
    /\ Len(actionChan) = ActionChanCap
    /\ Len(enqueued) = ActionChanCap + 1
    /\ rpc = "read"


\* C17 (as claimed): keymap compilation is deterministic: the keymap the
\* reader gets is the one formatKeymap gives for the bindings in every
\* visiting order, also when two key literals resolve to the same bytes.
C17_CompilationDeterministic ==
    Compiled =>
        \A r \in FormatKeymap(FlagKeymap(bindings)) : ~r.panic /\ r.m = keymap


\* C18 (as claimed): the synthetic initial resize event, sent on the
\* capacity-1 channel after the signal registration, never blocks: at the
\* send the channel has room, whenever a real SIGWINCH arrives.
C18_InitialSendNeverBlocks ==
    pc = "sigSend" => ENABLED SigSend


\* C19 (as claimed): with hold mode on and debug mode off the hold screen
\* can always be dismissed: whenever the supervisor is Holding the reader
\* is still running, also after it wrote keystrokes to the PTY of a child
\* that had exited.
C19_ReaderRunsWhileHolding ==
    (Holding /\ ~isDebug) => rpc # "dead"


\* C20 (as claimed): dispatching Become or Execute does not depend on piped
\* standard input: when stdin is a terminal (stdinFile is nil) the
\* substitution of __stdin_file__ does not abort the supervisor, and the
\* dispatch goes on to run the command as in a piped run.
C20_DispatchWithoutPipedStdin ==
    /\ [](~stdinPiped => endedBy # "nilStdinFile")
    /\ [][(~stdinPiped /\ DispatchOf({ActionTypeExecute})) => pc' = "execute"]_vars
    /\ [][(~stdinPiped /\ pc = "exec" /\ pc' # "exec")
            => (pc' = "replaced" \/ endedBy' = "execFailed")]_vars

=============================================================================
